---- MODULE Spec2Model ----
(***************************************************************************)
(* A model of SentinelVision's tracking-and-anomaly engine                 *)
(* (src/anomaly_detector.py, class AnomalyDetector) and of the host loop   *)
(* that drives it (src/video_processor.py, VideoProcessor.process_video).  *)
(*                                                                         *)
(* Units.  Timestamps are whole milliseconds (the source holds seconds as  *)
(* floats and itself converts with int(timestamp*1000) when it builds an   *)
(* object id), so 1.0 s is 1000, 5.0 s is 5000 and so on.  Coordinates are *)
(* integers (pixels).  Every pair of centers the model feeds lies on one   *)
(* horizontal line, so every Euclidean distance is an integer and Sqrt is  *)
(* exact.  Confidences are in percent (0.8 is 80).                         *)
(*                                                                         *)
(* tracked_objects is a Python dict, iterated in insertion order: it is a  *)
(* sequence of track records here.  potential_abandoned_objects is a dict  *)
(* whose order is never observed: it is a function on its keys.            *)
(***************************************************************************)
EXTENDS Integers, Sequences, FiniteSets, TLC

VARIABLES
    tracked_objects,              \* self.tracked_objects
    potential_abandoned_objects,  \* self.potential_abandoned_objects
    fps,                          \* self.fps
    anomalies,                    \* the list the last detect_anomalies call returned
    raised_in,                    \* the stage of the last call that raised, "" when none did
    propagated,                   \* the exception of the last call left detect_anomalies
    nerrors,                      \* number of calls that ran the except branch (logging.error)
    now,                          \* timestamp of the last call
    ncalls,                       \* number of detect_anomalies calls so far
    last_detections,              \* the detections argument of the last call
    host_pc,                      \* process_video: "start", "loop"; "direct" when the engine is driven directly
    scene,                        \* what the camera sees (decides the detector's output per frame)
    candidate_history,            \* history, per candidate key: events returned and continuity since creation
    event_log,                    \* history: every event returned so far, with the call's timestamp
    call_log,                     \* history: the calls made on the engine, with what each returned and left
    replica,                      \* a second AnomalyDetector, fed the calls of call_log
    uploads                       \* routes.upload_video: the engines constructed and the processing threads

vars == <<tracked_objects, potential_abandoned_objects, fps, anomalies, raised_in,
          propagated, nerrors, now, ncalls, last_detections, host_pc, scene,
          candidate_history, event_log, call_log, replica, uploads>>

----------------------------------------------------------------------------
(* Program constants *)

loitering_threshold == 10000
abandoned_object_threshold == 5000
movement_threshold == 20
DefaultFps == 30
PositionsMaxLen == 30
MovementMaxLen == 10
AssocDistance == 100
AssocWindow == 1000
NearbyDistance == 150
HighSeverityTime == 30000
TrackStaleness == 5000
CandidateStaleness == 60000
VarianceThreshold == 1000
MinMovementSamples == 5
MinVarianceSamples == 8
BoxHalf == 25
BoxSize == 50
LoiteringConfidence == 80
AbandonedConfidence == 90
MovementConfidence == 70

\* math.sqrt raises OverflowError when its argument exceeds the largest float
\* (about 1.8e308).  The model scales that limit down: every ordinary
\* coordinate is below 1000, so an ordinary sum of squares is far below
\* FloatMax, and only a difference involving BoxHuge exceeds it.
FloatMax == 100000000

None == -1
NoMatch == <<>>
MissingClass == "<missing>"
MissingBBox == <<>>

----------------------------------------------------------------------------
(* Helpers *)

Last(s) == s[Len(s)]

Sq(x) == x * x

\* math.sqrt on the perfect squares the model produces.
Sqrt(n) == CHOOSE r \in 0..n : r * r <= n /\ (r + 1) * (r + 1) > n

SqrtRaises(n) == n > FloatMax

RECURSIVE SumSeq(_)
SumSeq(s) == IF s = <<>> THEN 0 ELSE Head(s) + SumSeq(Tail(s))

RECURSIVE SumSqSeq(_)
SumSqSeq(s) == IF s = <<>> THEN 0 ELSE Sq(Head(s)) + SumSqSeq(Tail(s))

\* Mutant: a full deque refuses the new entry.
DequeAppendKeepOldest(q, e, maxlen) ==
    IF Len(q) >= maxlen THEN q ELSE Append(q, e)

\* deque(maxlen=n).append: the oldest entry is dropped when full.
DequeAppend(q, e, maxlen) ==
    LET q2 == Append(q, e) IN IF Len(q2) > maxlen THEN Tail(q2) ELSE q2

HasBBox(detection) == detection.bbox # MissingBBox
HasClass(detection) == detection.class # MissingClass

\* center_x = bbox[0] + bbox[2] // 2, center_y = bbox[1] + bbox[3] // 2
Center(bbox) == <<bbox[1] + (bbox[3] \div 2), bbox[2] + (bbox[4] \div 2)>>

DistSq(x1, y1, x2, y2) == Sq(x1 - x2) + Sq(y1 - y2)

\* The defaultdict's factory, with the key it is stored under.
NewTrack(object_id) ==
    [id |-> object_id, positions |-> <<>>, first_seen |-> None, last_seen |-> None,
     stationary_time |-> 0, movement_history |-> <<>>, class |-> "None"]

TrackIds(tracks) == {tracks[i].id : i \in 1..Len(tracks)}

\* self.tracked_objects[object_id]: the entry, created at the end when missing.
WithTrack(tracks, object_id) ==
    IF object_id \in TrackIds(tracks) THEN tracks ELSE Append(tracks, NewTrack(object_id))

\* f"{detection['class']}_{int(timestamp*1000)}"
NewObjectId(class, timestamp) == <<class, timestamp>>

\* f"{detection['class']}_{center_x}_{center_y}"
ObjectKey(class, center_x, center_y) == <<class, center_x, center_y>>

----------------------------------------------------------------------------
(* find_or_create_object_id *)

\* Mutant: a track last seen exactly 1.0 s ago still matches.
IsCloserMatchInclusiveWindow(distance, time_diff, min_distance) ==
    /\ distance < AssocDistance
    /\ time_diff <= AssocWindow
    /\ (min_distance = None \/ distance < min_distance)

\* Mutant: a position recorded in the current frame is not matched.
IsCloserMatchEarlierFrames(distance, time_diff, min_distance) ==
    /\ distance < AssocDistance
    /\ time_diff < AssocWindow
    /\ time_diff > 0
    /\ (min_distance = None \/ distance < min_distance)

\* Mutant: no limit on the age of the matched position.
IsCloserMatchAnyAge(distance, time_diff, min_distance) ==
    /\ distance < AssocDistance
    /\ (min_distance = None \/ distance < min_distance)

IsCloserMatch(distance, time_diff, min_distance) ==
    /\ distance < AssocDistance
    /\ time_diff < AssocWindow
    /\ (min_distance = None \/ distance < min_distance)

\* The loop over self.tracked_objects.items(); min_distance None is float('inf').
RECURSIVE FindScan(_, _, _, _, _, _, _, _)
FindScan(tracks, i, detection, center_x, center_y, timestamp, min_distance, best_match) ==
    IF i > Len(tracks) THEN [raised |-> FALSE, best_match |-> best_match]
    ELSE IF ~HasClass(detection) THEN [raised |-> TRUE, best_match |-> best_match]
    ELSE IF tracks[i].class = detection.class /\ tracks[i].positions # <<>> THEN
        LET last_pos == Last(tracks[i].positions)
            sq == DistSq(center_x, center_y, last_pos[1], last_pos[2])
        IN  IF SqrtRaises(sq) THEN [raised |-> TRUE, best_match |-> best_match]
            ELSE IF IsCloserMatch(Sqrt(sq), timestamp - last_pos[3], min_distance)
                 THEN FindScan(tracks, i + 1, detection, center_x, center_y, timestamp,
                               Sqrt(sq), tracks[i].id)
                 ELSE FindScan(tracks, i + 1, detection, center_x, center_y, timestamp,
                               min_distance, best_match)
    ELSE FindScan(tracks, i + 1, detection, center_x, center_y, timestamp,
                  min_distance, best_match)

\* Lines 129-133: the match found by the loop, or a new id.
ResolveMatch(scan, detection, timestamp) ==
    IF scan.raised THEN [raised |-> TRUE, object_id |-> NoMatch]
    ELSE IF scan.best_match # NoMatch THEN [raised |-> FALSE, object_id |-> scan.best_match]
    ELSE IF ~HasClass(detection) THEN [raised |-> TRUE, object_id |-> NoMatch]
    ELSE [raised |-> FALSE, object_id |-> NewObjectId(detection.class, timestamp)]

find_or_create_object_id(tracks, detection, center_x, center_y, timestamp) ==
    ResolveMatch(FindScan(tracks, 1, detection, center_x, center_y, timestamp, None, NoMatch),
                 detection, timestamp)

----------------------------------------------------------------------------
(* cleanup_old_objects *)

IsStaleTrack(track_info, timestamp, current_objects) ==
    /\ track_info.id \notin current_objects
    /\ track_info.last_seen # None /\ track_info.last_seen # 0   \* truthiness of last_seen
    /\ timestamp - track_info.last_seen > TrackStaleness

IsStaleCandidate(info, timestamp) == timestamp - info.first_seen > CandidateStaleness

CleanupTracks(tracks, timestamp, current_objects) ==
    SelectSeq(tracks, LAMBDA tr : ~IsStaleTrack(tr, timestamp, current_objects))

CleanupCandidates(pao, timestamp) ==
    [k \in {key \in DOMAIN pao : ~IsStaleCandidate(pao[key], timestamp)} |-> pao[k]]

----------------------------------------------------------------------------
(* update_tracking *)

\* Mutant: a large step does not reset stationary_time.
IsStationaryStepAlways(distance) == distance < movement_threshold \/ distance >= 0

IsStationaryStep(distance) == distance < movement_threshold

\* Mutant: line 89 is missing, last_seen stays what it was.
UpdateTrackKeepsLastSeen(track_info, detection, center_x, center_y, timestamp) ==
    LET positions == DequeAppend(track_info.positions, <<center_x, center_y, timestamp>>,
                                 PositionsMaxLen)
        t1 == [track_info EXCEPT !.positions = positions,
                                 !.class = detection.class,
                                 !.first_seen = IF @ = None THEN timestamp ELSE @]
    IN  IF Len(positions) > 1 THEN
            LET prev_pos == positions[Len(positions) - 1]
                curr_pos == positions[Len(positions)]
                distance == Sqrt(DistSq(curr_pos[1], curr_pos[2], prev_pos[1], prev_pos[2]))
            IN  [t1 EXCEPT !.movement_history = DequeAppend(@, distance, MovementMaxLen),
                           !.stationary_time = IF IsStationaryStep(distance)
                                               THEN @ + (curr_pos[3] - prev_pos[3])
                                               ELSE 0]
        ELSE t1

\* Mutant: line 93 without its test, first_seen restarts at every sample.
UpdateTrackRestartsFirstSeen(track_info, detection, center_x, center_y, timestamp) ==
    LET positions == DequeAppend(track_info.positions, <<center_x, center_y, timestamp>>,
                                 PositionsMaxLen)
        t1 == [track_info EXCEPT !.positions = positions,
                                 !.last_seen = timestamp,
                                 !.class = detection.class,
                                 !.first_seen = timestamp]
    IN  IF Len(positions) > 1 THEN
            LET prev_pos == positions[Len(positions) - 1]
                curr_pos == positions[Len(positions)]
                distance == Sqrt(DistSq(curr_pos[1], curr_pos[2], prev_pos[1], prev_pos[2]))
            IN  [t1 EXCEPT !.movement_history = DequeAppend(@, distance, MovementMaxLen),
                           !.stationary_time = IF IsStationaryStep(distance)
                                               THEN @ + (curr_pos[3] - prev_pos[3])
                                               ELSE 0]
        ELSE t1

\* Lines 87-107: the update of the track a detection was associated with.
\* math.sqrt at line 99 cannot raise: the step it measures is the distance
\* find_or_create_object_id measured at line 121 for the same track (a track
\* that already holds the id has the detection's class and a position), and
\* an overflow there has already ended the call.
UpdateTrack(track_info, detection, center_x, center_y, timestamp) ==
    LET positions == DequeAppend(track_info.positions, <<center_x, center_y, timestamp>>,
                                 PositionsMaxLen)
        t1 == [track_info EXCEPT !.positions = positions,
                                 !.last_seen = timestamp,
                                 !.class = detection.class,
                                 !.first_seen = IF @ = None THEN timestamp ELSE @]
    IN  IF Len(positions) > 1 THEN
            LET prev_pos == positions[Len(positions) - 1]
                curr_pos == positions[Len(positions)]
                distance == Sqrt(DistSq(curr_pos[1], curr_pos[2], prev_pos[1], prev_pos[2]))
            IN  [t1 EXCEPT !.movement_history = DequeAppend(@, distance, MovementMaxLen),
                           !.stationary_time = IF IsStationaryStep(distance)
                                               THEN @ + (curr_pos[3] - prev_pos[3])
                                               ELSE 0]
        ELSE t1

\* Lines 87-107 on the store: the entry of object_id (created when missing) updated.
Track(tracks, object_id, detection, center_x, center_y, timestamp) ==
    [i \in 1..Len(WithTrack(tracks, object_id)) |->
        IF WithTrack(tracks, object_id)[i].id = object_id
        THEN UpdateTrack(WithTrack(tracks, object_id)[i], detection, center_x, center_y,
                         timestamp)
        ELSE tracks[i]]

\* The loop over detections; an exception leaves the updates made so far.
\* AfterFind is the loop body from line 84 on, given the result of line 83.
RECURSIVE TrackLoop(_, _, _, _, _)
AfterFind(tracks, detections, i, timestamp, current_objects, found) ==
    IF found.raised
    THEN [raised |-> TRUE, tracks |-> tracks, current_objects |-> current_objects]
    ELSE TrackLoop(Track(tracks, found.object_id, detections[i],
                         Center(detections[i].bbox)[1], Center(detections[i].bbox)[2],
                         timestamp),
                   detections, i + 1, timestamp, current_objects \cup {found.object_id})

TrackLoop(tracks, detections, i, timestamp, current_objects) ==
    IF i > Len(detections)
    THEN [raised |-> FALSE, tracks |-> tracks, current_objects |-> current_objects]
    ELSE IF ~HasBBox(detections[i])
    THEN [raised |-> TRUE, tracks |-> tracks, current_objects |-> current_objects]
    ELSE AfterFind(tracks, detections, i, timestamp, current_objects,
                   find_or_create_object_id(tracks, detections[i],
                                            Center(detections[i].bbox)[1],
                                            Center(detections[i].bbox)[2], timestamp))

\* Mutant: the candidates are swept although the loop raised.
AfterTrackLoopSweepsAnyway(loop, pao, timestamp) ==
    IF loop.raised
    THEN [raised |-> TRUE, tracks |-> loop.tracks, pao |-> CleanupCandidates(pao, timestamp)]
    ELSE [raised |-> FALSE,
          tracks |-> CleanupTracks(loop.tracks, timestamp, loop.current_objects),
          pao |-> CleanupCandidates(pao, timestamp)]

\* Lines 109-110: cleanup runs only when the loop did not raise.
AfterTrackLoop(loop, pao, timestamp) ==
    IF loop.raised
    THEN [raised |-> TRUE, tracks |-> loop.tracks, pao |-> pao]
    ELSE [raised |-> FALSE,
          tracks |-> CleanupTracks(loop.tracks, timestamp, loop.current_objects),
          pao |-> CleanupCandidates(pao, timestamp)]

\* Returns the engine state after update_tracking, cleanup included.
update_tracking(tracks, pao, detections, timestamp) ==
    AfterTrackLoop(TrackLoop(tracks, detections, 1, timestamp, {}), pao, timestamp)

----------------------------------------------------------------------------
(* The classifiers *)

get_object_bbox(track_info) ==
    IF track_info.positions # <<>>
    THEN <<Last(track_info.positions)[1] - BoxHalf, Last(track_info.positions)[2] - BoxHalf,
           BoxSize, BoxSize>>
    ELSE <<0, 0, BoxSize, BoxSize>>

IsLoitering(track_info) ==
    track_info.class = "person" /\ track_info.stationary_time > loitering_threshold

\* Mutant: a short loitering is reported as Low.
LoiteringSeverityLow(stationary_time) ==
    IF stationary_time < HighSeverityTime THEN "low" ELSE "high"

\* Mutant: High only above 30 s.
LoiteringSeverityAbove(stationary_time) ==
    IF stationary_time <= HighSeverityTime THEN "medium" ELSE "high"

LoiteringSeverity(stationary_time) ==
    IF stationary_time < HighSeverityTime THEN "medium" ELSE "high"

LoiteringEvent(track_info) ==
    [type |-> "loitering",
     severity |-> LoiteringSeverity(track_info.stationary_time),
     start_timestamp |-> track_info.first_seen,
     bbox |-> get_object_bbox(track_info),
     confidence |-> LoiteringConfidence,
     object_id |-> track_info.id]

RECURSIVE detect_loitering(_)
detect_loitering(tracks) ==
    IF tracks = <<>> THEN <<>>
    ELSE (IF IsLoitering(Head(tracks)) /\ Head(tracks).positions # <<>>
          THEN <<LoiteringEvent(Head(tracks))>> ELSE <<>>)
         \o detect_loitering(Tail(tracks))

\* Mutant: a person counts as nearby only within the association distance.
IsNearbyWithinAssociation(distance) == distance < AssocDistance

IsNearby(distance) == distance < NearbyDistance

\* The inner loop over other_detection: "near", "far" or "raised".
RECURSIVE PersonNearby(_, _, _, _)
PersonNearby(detections, j, center_x, center_y) ==
    IF j > Len(detections) THEN "far"
    ELSE IF detections[j].class = "person" THEN
        LET oc == Center(detections[j].bbox)
            sq == DistSq(center_x, center_y, oc[1], oc[2])
        IN  IF SqrtRaises(sq) THEN "raised"
            ELSE IF IsNearby(Sqrt(sq)) THEN "near"
            ELSE PersonNearby(detections, j + 1, center_x, center_y)
    ELSE PersonNearby(detections, j + 1, center_x, center_y)

\* Mutant: confirmation at exactly the threshold.
ShouldConfirmAtThreshold(time_abandoned, confirmed) ==
    time_abandoned >= abandoned_object_threshold /\ ~confirmed

\* Mutant: the confirmed flag is not consulted.
ShouldConfirmAgain(time_abandoned, confirmed) ==
    time_abandoned > abandoned_object_threshold

ShouldConfirm(time_abandoned, confirmed) ==
    time_abandoned > abandoned_object_threshold /\ ~confirmed

AbandonedEvent(detection, abandoned_info, object_key) ==
    [type |-> "abandoned_object",
     severity |-> "high",
     start_timestamp |-> abandoned_info.first_seen,
     bbox |-> detection.bbox,
     confidence |-> AbandonedConfidence,
     object_id |-> object_key]

\* The outer loop of detect_abandoned_objects.  When it raises, the candidates
\* created or confirmed so far stay, and the events collected are lost.
\* AfterNearby is the loop body from line 179 on, given the result of the
\* inner loop for the detection's center and its key (line 180).
RECURSIVE AbandonedLoop(_, _, _, _, _)
AfterNearby(pao, detections, i, timestamp, events, nearby, object_key) ==
    IF nearby = "raised" THEN [raised |-> TRUE, pao |-> pao, events |-> <<>>]
    ELSE IF nearby = "near"
    THEN AbandonedLoop(pao, detections, i + 1, timestamp, events)
    ELSE IF object_key \notin DOMAIN pao
    THEN AbandonedLoop(
             [k \in DOMAIN pao \cup {object_key} |->
                 IF k = object_key
                 THEN [first_seen |-> timestamp, confirmed |-> FALSE]
                 ELSE pao[k]],
             detections, i + 1, timestamp, events)
    ELSE IF ShouldConfirm(timestamp - pao[object_key].first_seen, pao[object_key].confirmed)
    THEN AbandonedLoop(
             [pao EXCEPT ![object_key].confirmed = TRUE],
             detections, i + 1, timestamp,
             Append(events, AbandonedEvent(detections[i], pao[object_key], object_key)))
    ELSE AbandonedLoop(pao, detections, i + 1, timestamp, events)

AbandonedLoop(pao, detections, i, timestamp, events) ==
    IF i > Len(detections) THEN [raised |-> FALSE, pao |-> pao, events |-> events]
    ELSE IF detections[i].class = "person"
    THEN AbandonedLoop(pao, detections, i + 1, timestamp, events)
    ELSE AfterNearby(pao, detections, i, timestamp, events,
                     PersonNearby(detections, 1, Center(detections[i].bbox)[1],
                                  Center(detections[i].bbox)[2]),
                     ObjectKey(detections[i].class, Center(detections[i].bbox)[1],
                               Center(detections[i].bbox)[2]))

detect_abandoned_objects(pao, detections, timestamp) ==
    AbandonedLoop(pao, detections, 1, timestamp, <<>>)

\* movement_variance > 1000 with avg = sum/n and variance = sum((x-avg)^2)/n,
\* multiplied through by n*n:  n*sum(x^2) - sum(x)^2 > 1000*n*n.
HasHighVariance(movement_history) ==
    LET n == Len(movement_history)
    IN  n * SumSqSeq(movement_history) - Sq(SumSeq(movement_history))
            > VarianceThreshold * n * n

\* Mutant: the variance test applies as soon as the outer test of line 212 holds.
IsErraticOverFive(track_info) ==
    /\ track_info.class = "person"
    /\ Len(track_info.movement_history) > MinMovementSamples
    /\ HasHighVariance(track_info.movement_history)

IsErratic(track_info) ==
    /\ track_info.class = "person"
    /\ Len(track_info.movement_history) > MinMovementSamples
    /\ Len(track_info.movement_history) > MinVarianceSamples
    /\ HasHighVariance(track_info.movement_history)

MovementEvent(track_info) ==
    [type |-> "suspicious_movement",
     severity |-> "medium",
     start_timestamp |-> track_info.first_seen,
     bbox |-> get_object_bbox(track_info),
     confidence |-> MovementConfidence,
     object_id |-> track_info.id]

RECURSIVE detect_suspicious_movement(_)
detect_suspicious_movement(tracks) ==
    IF tracks = <<>> THEN <<>>
    ELSE (IF IsErratic(Head(tracks)) THEN <<MovementEvent(Head(tracks))>> ELSE <<>>)
         \o detect_suspicious_movement(Tail(tracks))

detect_zone_violations(detections, timestamp) == <<>>

----------------------------------------------------------------------------
(* The classifiers as steps on the engine state *)

\* Mutant: detect_loitering forgets the steps of the tracks it iterates over.
LoiteringStepForgets(st, detections, timestamp) ==
    [tracks |-> [i \in 1..Len(st.tracks) |-> [st.tracks[i] EXCEPT !.movement_history = <<>>]],
     pao |-> st.pao,
     events |-> detect_loitering(st.tracks)]

\* detect_loitering only reads self.tracked_objects.
LoiteringStep(st, detections, timestamp) ==
    [tracks |-> st.tracks, pao |-> st.pao, events |-> detect_loitering(st.tracks)]

\* detect_abandoned_objects reads the detections and reads and writes
\* self.potential_abandoned_objects.
AbandonedResult(st, ab) ==
    [tracks |-> st.tracks, pao |-> ab.pao, events |-> ab.events]

AbandonedStep(st, detections, timestamp) ==
    AbandonedResult(st, detect_abandoned_objects(st.pao, detections, timestamp))

\* detect_suspicious_movement only reads self.tracked_objects.
MovementStep(st, detections, timestamp) ==
    [tracks |-> st.tracks, pao |-> st.pao, events |-> detect_suspicious_movement(st.tracks)]

ClassifierStep(name, st, detections, timestamp) ==
    CASE name = "detect_loitering" -> LoiteringStep(st, detections, timestamp)
      [] name = "detect_abandoned_objects" -> AbandonedStep(st, detections, timestamp)
      [] name = "detect_suspicious_movement" -> MovementStep(st, detections, timestamp)

----------------------------------------------------------------------------
(* detect_anomalies *)

\* Mutant: update_tracking is called before the try block.
InTryClassifiersOnly(stage) ==
    stage \in {"detect_loitering", "detect_abandoned_objects",
               "detect_suspicious_movement", "detect_zone_violations"}

\* The statements of detect_anomalies that sit inside its try block.
InTry(stage) == stage \in {"update_tracking", "detect_loitering", "detect_abandoned_objects",
                           "detect_suspicious_movement", "detect_zone_violations"}

\* Mutant: the movement events are put in front of the list.
AfterAbandonedMovementFirst(ut, loitering_anomalies, ab, detections, timestamp) ==
    IF ab.raised
    THEN [tracks |-> ut.tracks, pao |-> ab.pao, anomalies |-> loitering_anomalies,
          raised_in |-> "detect_abandoned_objects"]
    ELSE [tracks |-> ut.tracks, pao |-> ab.pao,
          anomalies |-> detect_suspicious_movement(ut.tracks)
                        \o loitering_anomalies \o ab.events
                        \o detect_zone_violations(detections, timestamp),
          raised_in |-> ""]

\* The whole call: the state it leaves, the list it returns, the stage that
\* raised ("" when none did).
\* Lines 56-66, given the state update_tracking left, the loitering events
\* already collected and the outcome of detect_abandoned_objects.
AfterAbandoned(ut, loitering_anomalies, ab, detections, timestamp) ==
    IF ab.raised
    THEN [tracks |-> ut.tracks, pao |-> ab.pao, anomalies |-> loitering_anomalies,
          raised_in |-> "detect_abandoned_objects"]
    ELSE [tracks |-> ut.tracks, pao |-> ab.pao,
          anomalies |-> loitering_anomalies \o ab.events
                        \o detect_suspicious_movement(ut.tracks)
                        \o detect_zone_violations(detections, timestamp),
          raised_in |-> ""]

\* Lines 52-66, given the outcome of update_tracking.
AfterTracking(ut, detections, timestamp) ==
    IF ut.raised
    THEN [tracks |-> ut.tracks, pao |-> ut.pao, anomalies |-> <<>>,
          raised_in |-> "update_tracking"]
    ELSE AfterAbandoned(ut, detect_loitering(ut.tracks),
                        detect_abandoned_objects(ut.pao, detections, timestamp),
                        detections, timestamp)

detect_anomalies(tracks, pao, detections, timestamp) ==
    AfterTracking(update_tracking(tracks, pao, detections, timestamp), detections, timestamp)

----------------------------------------------------------------------------
(* Inputs *)

\* Bounding boxes (x, y, width, height).  Centers: A (110,120), B (190,120),
\* N (230,120), F (410,120), G (710,120), all on one line: B is 80 from A, N
\* is 120 from A (not associable, but nearby), F is 300 from A and from G.
BoxA == <<100, 100, 20, 40>>
BoxB == <<180, 100, 20, 40>>
BoxN == <<220, 100, 20, 40>>
BoxF == <<400, 100, 20, 40>>
\* Halfway between A and N: center (170,120), 60 from either.
BoxM == <<160, 100, 20, 40>>
BoxG == <<700, 100, 20, 40>>
\* A coordinate beyond the range in which squared distances fit a float.
BoxHuge == <<30000, 100, 20, 40>>

Det(class, bbox) == [class |-> class, bbox |-> bbox]

pA == Det("person", BoxA)
pB == Det("person", BoxB)
pN == Det("person", BoxN)
pM == Det("person", BoxM)
pF == Det("person", BoxF)
bA == Det("backpack", BoxA)
bG == Det("backpack", BoxG)
bHuge == Det("backpack", BoxHuge)
noClass == Det(MissingClass, BoxA)
noBBox == Det("person", MissingBBox)

IsMalformed(detection) == ~HasClass(detection) \/ ~HasBBox(detection)

----------------------------------------------------------------------------
(* History *)

Stamp(events, timestamp) ==
    [i \in 1..Len(events) |->
        [type |-> events[i].type, object_id |-> events[i].object_id,
         severity |-> events[i].severity, at |-> timestamp]]

CountFor(events, type, object_id) ==
    Cardinality({i \in 1..Len(events) :
                    events[i].type = type /\ events[i].object_id = object_id})

\* The frame shows a non-person object at this key with no person within range.
SeenAlone(detections, object_key) ==
    \E i \in 1..Len(detections) :
        /\ ~IsMalformed(detections[i])
        /\ detections[i].class # "person"
        /\ ObjectKey(detections[i].class, Center(detections[i].bbox)[1],
                     Center(detections[i].bbox)[2]) = object_key
        /\ \A j \in 1..Len(detections) :
              (~IsMalformed(detections[j]) /\ detections[j].class = "person")
              => DistSq(Center(detections[i].bbox)[1], Center(detections[i].bbox)[2],
                        Center(detections[j].bbox)[1], Center(detections[j].bbox)[2])
                    >= Sq(NearbyDistance)

\* A candidate of the new registry continues one of the old registry when it
\* kept its first_seen (a re-created candidate starts at the call's timestamp,
\* more than CandidateStaleness after the one it replaces).
SameCandidate(old, new, object_key) ==
    object_key \in DOMAIN old /\ old[object_key].first_seen = new[object_key].first_seen

NextCandidateHistory(old, new, returned, detections) ==
    [k \in DOMAIN new |->
        IF SameCandidate(old, new, k)
        THEN [emitted |-> candidate_history[k].emitted
                            + CountFor(returned, "abandoned_object", k),
              continuous |-> candidate_history[k].continuous /\ SeenAlone(detections, k)]
        ELSE [emitted |-> CountFor(returned, "abandoned_object", k),
              continuous |-> TRUE]]

----------------------------------------------------------------------------
(* Actions *)

\* One call detect_anomalies(detections, frame_number, timestamp).
\* What the caller receives: the list, unless the exception left the call.
Returned(r) == IF r.raised_in # "" /\ ~InTry(r.raised_in) THEN <<>> ELSE r.anomalies

Outcome(r, detections, timestamp) ==
    /\ tracked_objects' = r.tracks
    /\ potential_abandoned_objects' = r.pao
    /\ anomalies' = Returned(r)
    /\ raised_in' = r.raised_in
    /\ propagated' = (r.raised_in # "" /\ ~InTry(r.raised_in))
    /\ nerrors' = IF r.raised_in # "" /\ InTry(r.raised_in) THEN nerrors + 1 ELSE nerrors
    /\ now' = timestamp
    /\ ncalls' = ncalls + 1
    /\ last_detections' = detections
    /\ candidate_history' = NextCandidateHistory(potential_abandoned_objects, r.pao,
                                                 Returned(r), detections)
    /\ event_log' = event_log \o Stamp(Returned(r), timestamp)

Call(detections, timestamp) ==
    Outcome(detect_anomalies(tracked_objects, potential_abandoned_objects,
                             detections, timestamp),
            detections, timestamp)

EngineInit ==
    /\ tracked_objects = <<>>
    /\ potential_abandoned_objects = <<>>
    /\ fps = DefaultFps
    /\ anomalies = <<>>
    /\ raised_in = ""
    /\ propagated = FALSE
    /\ nerrors = 0
    /\ now = 0
    /\ ncalls = 0
    /\ last_detections = <<>>
    /\ candidate_history = <<>>
    /\ event_log = <<>>

\* A second instance right after construction: its own empty registries,
\* no call replayed yet, nothing it returned compared yet.
FreshReplica ==
    [tracks |-> <<>>, pao |-> <<>>, fed |-> 0, returned |-> <<>>, agrees |-> TRUE]

\* The server before any upload: no engine constructed, no thread started.
NoUploads == [engines |-> <<>>, procs |-> <<>>]

(* The host: VideoProcessor.process_video *)

MaxFrames == 70
StepAsideEvery == 25
HostFps == {1, 2, 4}
Scenes == {"person_still", "backpack_alone", "owner_returns", "pacing", "step_aside",
           "person_leaves", "stride", "busy"}

\* The x coordinates of a person walking a closed round of ten steps (75,
\* 15, 85, 5, 45 to the right, then the same to the left).  The population
\* variance of these ten step lengths is exactly 1000 (mean 45, squared
\* deviations 2 * (900 + 900 + 1600 + 1600 + 0)); that of the first nine is
\* 10000 / 9.
StrideX == <<100, 175, 190, 275, 280, 325, 250, 235, 150, 145>>

\* In "busy" a person stands at BoxF, the pacing of "pacing" goes on at BoxA
\* and BoxB, and from frame BackpackFromFrame on a backpack lies at BoxG,
\* 300 or more from everybody.
BackpackFromFrame == 12

\* What the detector reports for frame frame_number of a scene.  In
\* "step_aside" a person stands at BoxA and shows up at BoxB in every
\* StepAsideEvery-th frame; in "person_leaves" the person stands at BoxA
\* for StepAsideEvery frames and the scene is empty from then on.
SceneFrame(s, frame_number) ==
    CASE s = "person_still" -> <<pA>>
      [] s = "backpack_alone" -> <<bA>>
      [] s = "owner_returns" ->
            IF frame_number \in 1..5 THEN <<bA, pN>> ELSE <<bA>>
      [] s = "pacing" -> <<pA, pA, pB, pB>>
      [] s = "step_aside" ->
            IF frame_number % StepAsideEvery = 0 /\ frame_number > 0 THEN <<pB>> ELSE <<pA>>
      [] s = "person_leaves" ->
            IF frame_number < StepAsideEvery THEN <<pA>> ELSE <<>>
      [] s = "busy" ->
            IF frame_number < BackpackFromFrame THEN <<pF, pA, pA, pB, pB>>
            ELSE <<pF, pA, pA, pB, pB, bG>>
      [] s = "stride" ->
            <<Det("person", <<StrideX[(frame_number % Len(StrideX)) + 1], 100, 20, 40>>)>>

InitHost ==
    /\ EngineInit
    /\ call_log = <<>>
    /\ replica = FreshReplica
    /\ uploads = NoUploads
    /\ host_pc = "start"
    /\ scene \in Scenes

\* Mutant: the timestamp is the whole second the frame falls in.
FrameTimestampWholeSeconds(frame_number, f) == (frame_number \div f) * 1000

\* timestamp = frame_number / fps, in ms.
FrameTimestamp(frame_number, f) == (frame_number * 1000) \div f

\* self.anomaly_detector.initialize(width, height, fps)
HostInitialize ==
    /\ host_pc = "start"
    /\ \E f \in HostFps : fps' = f
    /\ host_pc' = "loop"
    /\ UNCHANGED <<tracked_objects, potential_abandoned_objects, anomalies, raised_in,
                   propagated, nerrors, now, ncalls, last_detections, scene,
                   candidate_history, event_log, call_log, replica, uploads>>

\* One turn of the frame loop: timestamp = frame_number / fps.
HostFrame ==
    /\ host_pc = "loop"
    /\ ncalls < MaxFrames
    /\ Call(SceneFrame(scene, ncalls), FrameTimestamp(ncalls, fps))
    /\ UNCHANGED <<fps, host_pc, scene, call_log, replica, uploads>>

NextHost == HostInitialize \/ HostFrame

SpecHost == InitHost /\ [][NextHost]_vars

(* The engine driven directly, by any caller that keeps timestamps        *)
(* non-decreasing.                                                         *)

InitDirect ==
    /\ EngineInit
    /\ call_log = <<>>
    /\ replica = FreshReplica
    /\ uploads = NoUploads
    /\ host_pc = "direct"
    /\ scene = "free"

StartTimes == {0, 1000}

Feed(detections, t0, dt) ==
    /\ host_pc = "direct"
    /\ Call(detections, IF ncalls = 0 THEN t0 ELSE now + dt)
    /\ UNCHANGED <<fps, host_pc, scene, call_log, replica, uploads>>

\* Well-formed frames: candidates, their owners, and unmatched detections.
MaxCalls == 4
Frames == {<<>>, <<bA>>, <<bA, bA>>, <<bA, pN>>, <<pA, pN>>}
Steps == {6000, 61000}

Next ==
    \E detections \in Frames, t0 \in StartTimes, dt \in Steps :
        ncalls < MaxCalls /\ Feed(detections, t0, dt)

Spec == InitDirect /\ [][Next]_vars

\* Frames that make a stage of detect_anomalies raise: a detection without
\* class or bbox, and a coordinate whose squared distance overflows.
MaxFaultCalls == 4
FaultFrames == {<<>>, <<bA>>, <<pA, pA, pB, pB>>, <<pA, bHuge>>, <<noClass, pA>>,
                <<pA, noBBox>>}
FaultSteps == {500, 61000}

NextFault ==
    \E detections \in FaultFrames, t0 \in StartTimes, dt \in FaultSteps :
        ncalls < MaxFaultCalls /\ Feed(detections, t0, dt)

SpecFault == InitDirect /\ [][NextFault]_vars

\* A caller that feeds a person standing at BoxA every LongStep ms, some of
\* the frames with a detection without class after the person.
MaxLongCalls == 14
LongStep == 900
LongFrames == {<<pA>>, <<pA, noClass>>}

NextLong ==
    \E detections \in LongFrames :
        ncalls < MaxLongCalls /\ Feed(detections, 0, LongStep)

SpecLong == InitDirect /\ [][NextLong]_vars

(* Two instances: the engine, whose calls are recorded, and a second       *)
(* instance that is fed the recorded calls from the first on, at any lag.  *)

MaxReplayCalls == 3
ReplayFrames == {<<bA>>, <<bA, pN>>, <<pA, pA, pB, pB>>, <<noClass, pA>>}
ReplaySteps == {500, 6000}

\* A call on the engine, recorded with the list it returned and the
\* registries it left.
FeedLogged(detections, dt) ==
    /\ host_pc = "direct"
    /\ ncalls < MaxReplayCalls
    /\ Call(detections, IF ncalls = 0 THEN 0 ELSE now + dt)
    /\ call_log' = Append(call_log,
                          [detections |-> detections, timestamp |-> now',
                           returned |-> anomalies', tracks |-> tracked_objects',
                           pao |-> potential_abandoned_objects'])
    /\ UNCHANGED <<fps, host_pc, scene, replica, uploads>>

\* Mutant: the registries are shared by all instances.
OwnRegistriesShared(own, other) == other

\* The registries a call works on are the instance's own (self.tracked_objects
\* and self.potential_abandoned_objects, created in __init__), whatever
\* another instance holds.
OwnRegistries(own, other) == own

\* The replica after the call made of entry, given the outcome r of the call.
Replayed(r, entry) ==
    [tracks |-> r.tracks, pao |-> r.pao, fed |-> replica.fed + 1,
     returned |-> Returned(r),
     agrees |-> /\ replica.agrees
                /\ Returned(r) = entry.returned
                /\ r.tracks = entry.tracks
                /\ r.pao = entry.pao]

ReplicaCall(registries, entry) ==
    replica' = Replayed(detect_anomalies(registries.tracks, registries.pao,
                                         entry.detections, entry.timestamp),
                        entry)

\* The second instance receives the next recorded call.
ReplicaFeed ==
    /\ host_pc = "direct"
    /\ replica.fed < Len(call_log)
    /\ ReplicaCall(OwnRegistries([tracks |-> replica.tracks, pao |-> replica.pao],
                                 [tracks |-> tracked_objects,
                                  pao |-> potential_abandoned_objects]),
                   call_log[replica.fed + 1])
    /\ UNCHANGED <<tracked_objects, potential_abandoned_objects, fps, anomalies, raised_in,
                   propagated, nerrors, now, ncalls, last_detections, host_pc, scene,
                   candidate_history, event_log, call_log, uploads>>

NextReplay ==
    \/ \E detections \in ReplayFrames, dt \in ReplaySteps : FeedLogged(detections, dt)
    \/ ReplicaFeed

SpecReplay == InitDirect /\ [][NextReplay]_vars

(* The server: routes.upload_video starts, for every uploaded video, a     *)
(* thread that runs process_video on a VideoProcessor of its own.  The     *)
(* threads take their turns in any order.                                  *)

MaxUploads == 2
MaxUploadFrames == 4
Videos == {"pacing", "backpack_alone"}
UploadFps == {1, 2}

\* An engine right after AnomalyDetector.__init__.
FreshEngine == [tracks |-> <<>>, pao |-> <<>>, fps |-> DefaultFps]

\* Mutant: every VideoProcessor gets the engine constructed first.
NewEngineShared(engines) == 1

\* self.anomaly_detector = AnomalyDetector(): an object that did not exist.
NewEngine(engines) == Len(engines) + 1

\* processor = VideoProcessor(); threading.Thread(target=processor.process_video).start()
Started(ref, video) ==
    [engines |-> IF ref > Len(uploads.engines)
                 THEN Append(uploads.engines, FreshEngine)
                 ELSE uploads.engines,
     procs |-> Append(uploads.procs,
                      [engine |-> ref, video |-> video, pc |-> "start", fps |-> 0,
                       frame_number |-> 0, anomalies |-> <<>>])]

Upload(video) ==
    /\ Len(uploads.procs) < MaxUploads
    /\ uploads' = Started(NewEngine(uploads.engines), video)
    /\ UNCHANGED <<tracked_objects, potential_abandoned_objects, fps, anomalies, raised_in,
                   propagated, nerrors, now, ncalls, last_detections, host_pc, scene,
                   candidate_history, event_log, call_log, replica>>

\* Thread p: self.anomaly_detector.initialize(width, height, fps)
ThreadInitialize(p, f) ==
    /\ p \in 1..Len(uploads.procs)
    /\ uploads.procs[p].pc = "start"
    /\ uploads' = [engines |-> [uploads.engines EXCEPT ![uploads.procs[p].engine].fps = f],
                   procs |-> [uploads.procs EXCEPT ![p].pc = "loop", ![p].fps = f]]
    /\ UNCHANGED <<tracked_objects, potential_abandoned_objects, fps, anomalies, raised_in,
                   propagated, nerrors, now, ncalls, last_detections, host_pc, scene,
                   candidate_history, event_log, call_log, replica>>

\* The server after thread p's call returned r.
FrameDone(p, r) ==
    [engines |-> [uploads.engines EXCEPT ![uploads.procs[p].engine].tracks = r.tracks,
                                         ![uploads.procs[p].engine].pao = r.pao],
     procs |-> [uploads.procs EXCEPT ![p].frame_number = @ + 1,
                                     ![p].anomalies = Returned(r)]]

\* Thread p: one turn of the frame loop of process_video.
ThreadFrame(p) ==
    /\ p \in 1..Len(uploads.procs)
    /\ uploads.procs[p].pc = "loop"
    /\ uploads.procs[p].frame_number < MaxUploadFrames
    /\ uploads' = FrameDone(p,
           detect_anomalies(uploads.engines[uploads.procs[p].engine].tracks,
                            uploads.engines[uploads.procs[p].engine].pao,
                            SceneFrame(uploads.procs[p].video, uploads.procs[p].frame_number),
                            FrameTimestamp(uploads.procs[p].frame_number,
                                           uploads.procs[p].fps)))
    /\ UNCHANGED <<tracked_objects, potential_abandoned_objects, fps, anomalies, raised_in,
                   propagated, nerrors, now, ncalls, last_detections, host_pc, scene,
                   candidate_history, event_log, call_log, replica>>

InitUploads ==
    /\ EngineInit
    /\ call_log = <<>>
    /\ replica = FreshReplica
    /\ uploads = NoUploads
    /\ host_pc = "server"
    /\ scene = "free"

NextUploads ==
    \/ \E video \in Videos : Upload(video)
    \/ \E p \in 1..MaxUploads, f \in UploadFps : ThreadInitialize(p, f)
    \/ \E p \in 1..MaxUploads : ThreadFrame(p)

SpecUploads == InitUploads /\ [][NextUploads]_vars

(* A caller that configures the engine itself: initialize with any frame   *)
(* rate, at any time, and frames in between.                               *)

MaxConfigCalls == 3
ConfigFps == {-30, 0, 30}
ConfigFrames == {<<>>, <<bA>>, <<pA, pN>>}
ConfigSteps == {500, 6000}

\* initialize(width, height, fps): the values are stored as they come.
Initialize(f) ==
    /\ host_pc = "direct"
    /\ ncalls < MaxConfigCalls
    /\ fps' = f
    /\ UNCHANGED <<tracked_objects, potential_abandoned_objects, anomalies, raised_in,
                   propagated, nerrors, now, ncalls, last_detections, host_pc, scene,
                   candidate_history, event_log, call_log, replica, uploads>>

NextConfig ==
    \/ \E f \in ConfigFps : Initialize(f)
    \/ \E detections \in ConfigFrames, dt \in ConfigSteps :
          ncalls < MaxConfigCalls /\ Feed(detections, 0, dt)

SpecConfig == InitDirect /\ [][NextConfig]_vars

(* A caller that shows the engine persons at BoxA, BoxN and, halfway       *)
(* between them, BoxM, a quarter of a second or a full second apart.       *)

MaxAssocCalls == 3
AssocFrames == {<<pA>>, <<pN>>, <<pM>>, <<pA, pN>>, <<pA, pM>>}
AssocSteps == {250, 1000, 6000}

NextAssoc ==
    \E detections \in AssocFrames, dt \in AssocSteps :
        ncalls < MaxAssocCalls /\ Feed(detections, 0, dt)

SpecAssoc == InitDirect /\ [][NextAssoc]_vars

----------------------------------------------------------------------------
(* Frames with a backpack and a detection that lacks its class or its bbox,  *)
(* six seconds or a little more than a minute apart.                         *)

MaxMalformedCalls == 4
MalformedFrames == {<<bA>>, <<bA, noBBox>>, <<noClass, bA>>, <<pA, bG, noClass>>}
MalformedSteps == {6000, 61000}

NextMalformed ==
    \E detections \in MalformedFrames, dt \in MalformedSteps :
        ncalls < MaxMalformedCalls /\ Feed(detections, 0, dt)

SpecMalformed == InitDirect /\ [][NextMalformed]_vars

----------------------------------------------------------------------------
(* Properties *)

EventsOf(log, type) == SelectSeq(log, LAMBDA e : e.type = type)

Times(log) == {log[i].at : i \in 1..Len(log)}

\* Scenario A: a person standing at BoxA, one frame per second from t = 0.
ScenarioA == scene = "person_still" /\ host_pc = "loop" /\ fps = 1

\* Scenario B: a backpack at BoxA with nobody around, one frame per second.
ScenarioB == scene = "backpack_alone" /\ host_pc = "loop" /\ fps = 1

\* C1, as stated: scenario A (11 frames, t = 0..10) yields no Loitering event
\* before t = 10 and exactly one Loitering event, Medium, at or after t = 10.
C1_ScenarioA_OneLoitering ==
    (ScenarioA /\ ncalls = 11) =>
        /\ Len(EventsOf(event_log, "loitering")) = 1
        /\ \A i \in 1..Len(event_log) :
              event_log[i].type = "loitering" =>
                  event_log[i].at >= 10000 /\ event_log[i].severity = "medium"

\* C1, amended: scenario A yields no Loitering event in any of its 11 frames.
\* Frames 1.0 s apart are never associated (the elapsed time is not below
\* 1.0 s), so every frame starts a track of its own, with a single position
\* and a stationary_time of 0.
C1_ScenarioA_NoLoitering ==
    (ScenarioA /\ ncalls <= 11) =>
        /\ EventsOf(event_log, "loitering") = <<>>
        /\ \A i \in 1..Len(tracked_objects) :
              /\ Len(tracked_objects[i].positions) = 1
              /\ tracked_objects[i].stationary_time = 0

C1_Witness ==
    /\ ScenarioA /\ ncalls = 11 /\ now = 10000
    /\ last_detections = <<pA>>
    /\ Len(tracked_objects) = 7
    /\ anomalies = <<>>

\* C2, as stated: scenario B yields exactly one AbandonedObject event, High,
\* emitted at the frame t = 5, and none later while the backpack is held.
C2_ScenarioB_EventAtFive ==
    (ScenarioB /\ now >= 5000) =>
        /\ Times(EventsOf(event_log, "abandoned_object")) = {5000}
        /\ Len(EventsOf(event_log, "abandoned_object")) = 1

\* C2, amended: in scenario B the AbandonedObject events, all High, are
\* emitted exactly at t = 6 (the first frame with t - first_seen > 5.0) and,
\* after the sweeper has removed the candidate at t = 61 and the same frame
\* has created a new one, at t = 67, and so on every 61 s: one event per
\* candidate, and none in any other frame while the backpack is held.
C2_ScenarioB_EventAtSix ==
    ScenarioB =>
        /\ Times(EventsOf(event_log, "abandoned_object"))
              = {t \in {6000 + 61000 * k : k \in 0..(now \div 61000)} : t <= now}
        /\ Len(EventsOf(event_log, "abandoned_object"))
              = Cardinality(Times(EventsOf(event_log, "abandoned_object")))
        /\ \A i \in 1..Len(event_log) :
              event_log[i].type = "abandoned_object" => event_log[i].severity = "high"

C2_Witness ==
    /\ ScenarioB /\ now = 67000
    /\ Times(EventsOf(event_log, "abandoned_object")) = {6000, 67000}
    /\ Len(anomalies) = 1 /\ anomalies[1].type = "abandoned_object"
    /\ anomalies[1].start_timestamp = 61000

\* C3, as stated: an AbandonedObject event for key k is only emitted when the
\* object was seen at k with no person nearby in every frame since the
\* candidate's first_seen, over at least 5.0 s.
C3_ContinuousObservation ==
    \A i \in 1..Len(anomalies) :
        anomalies[i].type = "abandoned_object" =>
            /\ candidate_history[anomalies[i].object_id].continuous
            /\ now - anomalies[i].start_timestamp >= abandoned_object_threshold

\* C4: per candidate (from its creation to its removal) at most one
\* AbandonedObject event is returned, also when its key occurs twice in a
\* frame, and a confirmed candidate stays confirmed while it is in the registry.
C4_ConfirmedOnce ==
    /\ [](\A k \in DOMAIN potential_abandoned_objects : candidate_history[k].emitted <= 1)
    /\ [][\A k \in DOMAIN potential_abandoned_objects \cap DOMAIN potential_abandoned_objects' :
            (/\ SameCandidate(potential_abandoned_objects, potential_abandoned_objects', k)
             /\ potential_abandoned_objects[k].confirmed)
            => potential_abandoned_objects'[k].confirmed]_vars

C4_Witness ==
    /\ last_detections = <<bA, bA>>
    /\ Len(anomalies) = 1 /\ anomalies[1].type = "abandoned_object"
    /\ potential_abandoned_objects[anomalies[1].object_id].confirmed
    /\ candidate_history[anomalies[1].object_id].emitted = 1
    /\ Len(EventsOf(event_log, "abandoned_object")) = 2

\* C5, as stated: when a classifier raises, the other classifiers are still
\* evaluated and their events are returned.
C5_ClassifiersIsolated ==
    raised_in = "detect_abandoned_objects" =>
        anomalies = detect_loitering(tracked_objects)
                        \o detect_suspicious_movement(tracked_objects)

Associated(detection, tracks, timestamp) ==
    \E i \in 1..Len(tracks) :
        /\ tracks[i].class = detection.class
        /\ \E p \in 1..Len(tracks[i].positions) :
              tracks[i].positions[p]
                  = <<Center(detection.bbox)[1], Center(detection.bbox)[2], timestamp>>

\* C6, as stated: a malformed detection is skipped alone; the other
\* detections of its frame are associated and the rest of the call runs.
C6_OnlyMalformedSkipped ==
    (ncalls > 0 /\ \E i \in 1..Len(last_detections) : IsMalformed(last_detections[i])) =>
        /\ raised_in = ""
        /\ \A i \in 1..Len(last_detections) :
              ~IsMalformed(last_detections[i])
                  => Associated(last_detections[i], tracked_objects, now)

\* C7: no exception leaves detect_anomalies; a call that raised returns the
\* events collected before the exception (none when update_tracking raised),
\* and the store it leaves holds only fully initialised tracks.
C7_NeverPropagates ==
    /\ ~propagated
    /\ raised_in = "update_tracking" => anomalies = <<>>
    /\ \A i \in 1..Len(tracked_objects) :
          /\ tracked_objects[i].positions # <<>>
          /\ tracked_objects[i].first_seen # None
          /\ tracked_objects[i].last_seen # None

C7_Witness ==
    /\ nerrors > 0
    /\ raised_in = ""
    /\ anomalies # <<>>
    /\ \E i \in 1..Len(last_detections) :
          Associated(last_detections[i], tracked_objects, now)

\* C8, as stated, on the first call (the store is empty, so no detection has
\* an eligible track): two detections of one class 100 or more apart become
\* two distinct tracks, each with a position history of length 1.
C8_FreshIds ==
    ncalls = 1 =>
        \A i, j \in 1..Len(last_detections) :
            (/\ i < j
             /\ last_detections[i].class = last_detections[j].class
             /\ DistSq(Center(last_detections[i].bbox)[1], Center(last_detections[i].bbox)[2],
                       Center(last_detections[j].bbox)[1], Center(last_detections[j].bbox)[2])
                    >= Sq(AssocDistance))
            => \E a, b \in 1..Len(tracked_objects) :
                  /\ tracked_objects[a].id # tracked_objects[b].id
                  /\ tracked_objects[a].positions
                        = <<<<Center(last_detections[i].bbox)[1],
                              Center(last_detections[i].bbox)[2], now>>>>
                  /\ tracked_objects[b].positions
                        = <<<<Center(last_detections[j].bbox)[1],
                              Center(last_detections[j].bbox)[2], now>>>>

\* C9, as stated: after every call no track of the store was last seen more
\* than 5.0 s before the call's timestamp.
C9_NoStaleTrack ==
    ncalls > 0 =>
        \A i \in 1..Len(tracked_objects) :
            now - tracked_objects[i].last_seen <= TrackStaleness

\* C10, as stated: after every call every candidate of the registry was first
\* seen at most 60 s before the call's timestamp.
C10_NoStaleCandidate ==
    ncalls > 0 =>
        \A k \in DOMAIN potential_abandoned_objects :
            now - potential_abandoned_objects[k].first_seen <= CandidateStaleness

----------------------------------------------------------------------------
(* Properties of the track update *)

\* The track of the store with this id (the store holds one entry per id).
TrackOf(tracks, object_id) ==
    tracks[CHOOSE i \in 1..Len(tracks) : tracks[i].id = object_id]

\* The samples a call at timestamp appended to a position history.
SamplesAt(positions, timestamp) == SelectSeq(positions, LAMBDA p : p[3] = timestamp)

\* What the stated rule makes of stationary_time st when the samples of
\* added are appended in turn after the sample prev: 0 after a step of
\* movement_threshold or more, else st plus the time between the two samples.
RECURSIVE StationaryAfter(_, _, _)
StationaryAfter(st, prev, added) ==
    IF added = <<>> THEN st
    ELSE StationaryAfter(
             IF DistSq(Head(added)[1], Head(added)[2], prev[1], prev[2])
                    >= Sq(movement_threshold)
             THEN 0
             ELSE st + (Head(added)[3] - prev[3]),
             Head(added), Tail(added))

\* C11: every sample appended to a track that already had a position sets
\* stationary_time to 0 when the step from the previous sample is
\* movement_threshold (20) or more, and adds the time between the two samples
\* otherwise; a track created by the call starts at 0, and a track that
\* received no sample keeps its stationary_time.
C11_StationaryTimeRule ==
    [][\A i \in 1..Len(tracked_objects') :
          IF tracked_objects'[i].id \in TrackIds(tracked_objects)
          THEN tracked_objects'[i].stationary_time
                  = StationaryAfter(
                        TrackOf(tracked_objects, tracked_objects'[i].id).stationary_time,
                        Last(TrackOf(tracked_objects, tracked_objects'[i].id).positions),
                        SamplesAt(tracked_objects'[i].positions, now'))
          ELSE tracked_objects'[i].stationary_time
                  = StationaryAfter(0, Head(tracked_objects'[i].positions),
                                    Tail(SamplesAt(tracked_objects'[i].positions, now')))]_vars

\* A person who stood for 12 s has just stepped aside: the track's 25th step
\* is 80 long and its stationary_time is back to 0.
C11_Witness ==
    /\ scene = "step_aside" /\ fps = 2 /\ ncalls = StepAsideEvery + 1
    /\ Len(tracked_objects) = 1
    /\ tracked_objects[1].stationary_time = 0
    /\ Last(tracked_objects[1].movement_history) = 80
    /\ tracked_objects[1].positions[Len(tracked_objects[1].positions) - 1][3] = now - 500

\* The newest n entries of s, in order.
LastN(s, n) == IF Len(s) <= n THEN s ELSE SubSeq(s, Len(s) - n + 1, Len(s))

\* The step distances along prev followed by the samples of added.
RECURSIVE StepsAlong(_, _)
StepsAlong(prev, added) ==
    IF added = <<>> THEN <<>>
    ELSE <<Sqrt(DistSq(Head(added)[1], Head(added)[2], prev[1], prev[2]))>>
         \o StepsAlong(Head(added), Tail(added))

\* C12: a position history never holds more than 30 entries and a movement
\* history never more than 10, and every call leaves each track with the
\* newest 30 of (its old positions followed by the samples appended) and the
\* newest 10 of (its old step distances followed by the new steps), in
\* arrival order: the entries dropped are the oldest.
C12_BoundedFifoHistories ==
    /\ [](\A i \in 1..Len(tracked_objects) :
            /\ Len(tracked_objects[i].positions) <= PositionsMaxLen
            /\ Len(tracked_objects[i].movement_history) <= MovementMaxLen)
    /\ [][\A i \in 1..Len(tracked_objects') :
            IF tracked_objects'[i].id \in TrackIds(tracked_objects)
            THEN /\ tracked_objects'[i].positions
                      = LastN(TrackOf(tracked_objects, tracked_objects'[i].id).positions
                                  \o SamplesAt(tracked_objects'[i].positions, now'),
                              PositionsMaxLen)
                 /\ tracked_objects'[i].movement_history
                      = LastN(TrackOf(tracked_objects, tracked_objects'[i].id).movement_history
                                  \o StepsAlong(
                                         Last(TrackOf(tracked_objects,
                                                      tracked_objects'[i].id).positions),
                                         SamplesAt(tracked_objects'[i].positions, now')),
                              MovementMaxLen)
            ELSE /\ tracked_objects'[i].positions
                      = SamplesAt(tracked_objects'[i].positions, now')
                 /\ tracked_objects'[i].movement_history
                      = StepsAlong(Head(tracked_objects'[i].positions),
                                   Tail(tracked_objects'[i].positions))]_vars

\* Forty frames of a person standing still at 2 fps: the history holds the
\* samples of frames 10 to 39, the ten oldest are gone.
C12_Witness ==
    /\ scene = "person_still" /\ fps = 2 /\ ncalls = 40
    /\ Len(tracked_objects) = 1
    /\ tracked_objects[1].first_seen = 0
    /\ Len(tracked_objects[1].positions) = PositionsMaxLen
    /\ Head(tracked_objects[1].positions)[3] = 5000
    /\ Last(tracked_objects[1].positions)[3] = 19500
    /\ Len(tracked_objects[1].movement_history) = MovementMaxLen

\* C13: after any sequence of calls with non-decreasing timestamps, calls
\* that ran into an internal error included, every track of the store has a
\* non-empty position history, its last_seen is the timestamp of the newest
\* position, and its stationary_time is not negative.
C13_TrackWellFormed ==
    \A i \in 1..Len(tracked_objects) :
        /\ tracked_objects[i].positions # <<>>
        /\ tracked_objects[i].last_seen = Last(tracked_objects[i].positions)[3]
        /\ tracked_objects[i].stationary_time >= 0

\* A call that updated a track (it has stood still since the call before)
\* and then raised on the next detection of the frame.
C13_Witness ==
    /\ raised_in = "update_tracking"
    /\ last_detections = <<pA, noBBox>>
    /\ \E i \in 1..Len(tracked_objects) :
          /\ tracked_objects[i].last_seen = now
          /\ Len(tracked_objects[i].positions) > 1
          /\ tracked_objects[i].stationary_time > 0

----------------------------------------------------------------------------
(* Properties of the classifiers *)

\* The object ids of the events of one type, in the order of the list.
IdsOf(events, type) ==
    [i \in 1..Len(SelectSeq(events, LAMBDA e : e.type = type)) |->
        SelectSeq(events, LAMBDA e : e.type = type)[i].object_id]

\* The ids of a sequence of tracks, in its order.
IdsOfTracks(tracks) == [i \in 1..Len(tracks) |-> tracks[i].id]

\* C14, as stated: the Loitering events of every frame are exactly one per
\* track of the store whose class is person and whose stationary_time is
\* above 10.0 s, whether or not the frame matched the track.
C14_LoiteringIff ==
    ncalls > 0 =>
        IdsOf(anomalies, "loitering")
            = IdsOfTracks(SelectSeq(tracked_objects,
                                    LAMBDA tr : tr.class = "person"
                                                /\ tr.stationary_time > loitering_threshold))

\* C15: every Loitering event returned is Medium when its track's
\* stationary_time is below 30 s and High when it is 30 s or more.
C15_LoiteringSeverity ==
    \A i \in 1..Len(anomalies) :
        anomalies[i].type = "loitering" =>
            anomalies[i].severity
                = IF TrackOf(tracked_objects, anomalies[i].object_id).stationary_time
                        < HighSeverityTime
                  THEN "medium" ELSE "high"

\* The frame in which a person has stood for exactly 30.0 s: High, after a
\* Medium event for 29.5 s in the frame before.
C15_Witness ==
    /\ scene = "person_still" /\ fps = 2
    /\ Len(anomalies) = 1 /\ anomalies[1].type = "loitering"
    /\ anomalies[1].severity = "high"
    /\ TrackOf(tracked_objects, anomalies[1].object_id).stationary_time = HighSeverityTime
    /\ \E i \in 1..Len(event_log) :
          /\ event_log[i].type = "loitering" /\ event_log[i].severity = "medium"
          /\ event_log[i].at = now - 500

\* The population variance of xs (the mean of the squared deviations from
\* the mean) is above limit; with n = Len(xs) and S the sum of xs, both sides
\* are multiplied by n^3:  sum((n*x - S)^2) > limit * n^3.
PopVarianceAbove(xs, limit) ==
    SumSqSeq([i \in 1..Len(xs) |-> Len(xs) * xs[i] - SumSeq(xs)])
        > limit * Len(xs) * Len(xs) * Len(xs)

\* C16, as stated: the SuspiciousMovement events of every frame are exactly
\* one per track of the store whose class is person, whose movement history
\* holds at least 9 step distances, and whose step distances have a
\* population variance above 1000.
C16_SuspiciousIff ==
    ncalls > 0 =>
        IdsOf(anomalies, "suspicious_movement")
            = IdsOfTracks(SelectSeq(tracked_objects,
                                    LAMBDA tr : /\ tr.class = "person"
                                                /\ Len(tr.movement_history) >= 9
                                                /\ PopVarianceAbove(tr.movement_history,
                                                                    1000)))

\* C17, as stated: the classifiers of a call still see a track the call's
\* sweeper removes, so a person track with stationary_time above 10.0 s that
\* the call evicts has its Loitering event in the list the call returns.
C17_EvictedStillClassified ==
    [][\A i \in 1..Len(tracked_objects) :
          (/\ tracked_objects[i].id \notin TrackIds(tracked_objects')
           /\ tracked_objects[i].class = "person"
           /\ tracked_objects[i].stationary_time > loitering_threshold)
          => \E e \in 1..Len(anomalies') :
                /\ anomalies'[e].type = "loitering"
                /\ anomalies'[e].object_id = tracked_objects[i].id]_vars

\* The place of a classifier in the evaluation order of detect_anomalies.
Rank(type) ==
    CASE type = "loitering" -> 1
      [] type = "abandoned_object" -> 2
      [] type = "suspicious_movement" -> 3
      [] OTHER -> 4

\* C18: the list a call returns is in classifier order: the Loitering events
\* come first, then the AbandonedObject events, then the SuspiciousMovement
\* events, and it holds nothing else (it is empty when no classifier fires).
C18_ClassifierOrder ==
    /\ \A i \in 1..Len(anomalies) : Rank(anomalies[i].type) <= 3
    /\ \A i, j \in 1..Len(anomalies) :
          i < j => Rank(anomalies[i].type) <= Rank(anomalies[j].type)

\* A frame in which all three classifiers fire.
C18_Witness ==
    /\ scene = "busy"
    /\ Len(anomalies) = 3
    /\ anomalies[1].type = "loitering"
    /\ anomalies[2].type = "abandoned_object"
    /\ anomalies[3].type = "suspicious_movement"

\* C19: every event ever returned is a Loitering, AbandonedObject or
\* SuspiciousMovement event of severity Medium or High; AbandonedObject
\* events are always High and SuspiciousMovement events always Medium.
C19_KindsAndSeverities ==
    \A i \in 1..Len(event_log) :
        /\ event_log[i].type \in {"loitering", "abandoned_object", "suspicious_movement"}
        /\ event_log[i].severity \in {"medium", "high"}
        /\ event_log[i].type = "abandoned_object" => event_log[i].severity = "high"
        /\ event_log[i].type = "suspicious_movement" => event_log[i].severity = "medium"

\* A run that has returned events of all three kinds, Loitering in both
\* severities.
C19_Witness ==
    /\ \E i \in 1..Len(event_log) :
          event_log[i].type = "loitering" /\ event_log[i].severity = "medium"
    /\ \E i \in 1..Len(event_log) :
          event_log[i].type = "loitering" /\ event_log[i].severity = "high"
    /\ \E i \in 1..Len(event_log) : event_log[i].type = "abandoned_object"
    /\ \E i \in 1..Len(event_log) : event_log[i].type = "suspicious_movement"

----------------------------------------------------------------------------
(* Replay *)

----------------------------------------------------------------------------
(* Instances *)

\* C21: every processing thread has an engine of its own, and a step of one
\* thread (its initialize or a detect_anomalies call) leaves the Track Store
\* and the Candidate Registry of every other thread's engine, and the list
\* that thread last received, as they were.
C21_InstancesIndependent ==
    /\ [](\A p, q \in 1..Len(uploads.procs) :
            p # q => uploads.procs[p].engine # uploads.procs[q].engine)
    /\ [][\A q \in 1..Len(uploads.procs) :
            (/\ uploads'.procs[q].frame_number = uploads.procs[q].frame_number
             /\ uploads'.procs[q].pc = uploads.procs[q].pc)
            => /\ uploads'.engines[uploads'.procs[q].engine]
                    = uploads.engines[uploads.procs[q].engine]
               /\ uploads'.procs[q].anomalies = uploads.procs[q].anomalies]_vars

\* Two threads, each some frames into a different video, with different
\* tracks in their engines; one of them has just received an event.
C21_Witness ==
    /\ Len(uploads.procs) = 2
    /\ uploads.procs[1].video # uploads.procs[2].video
    /\ uploads.procs[1].frame_number >= 3 /\ uploads.procs[2].frame_number >= 3
    /\ uploads.engines[uploads.procs[1].engine].tracks # <<>>
    /\ uploads.engines[uploads.procs[2].engine].tracks # <<>>
    /\ uploads.engines[uploads.procs[1].engine].tracks
          # uploads.engines[uploads.procs[2].engine].tracks
    /\ \E p \in 1..2 : uploads.procs[p].anomalies # <<>>

----------------------------------------------------------------------------
(* Configuration *)

\* C22, as stated: an invalid configuration is rejected at construction or
\* by initialize, so an engine that has processed a frame holds a valid one
\* (a positive frame rate).
C22_InvalidConfigRejected ==
    ncalls > 0 => fps > 0

----------------------------------------------------------------------------
(* Association *)

\* The tracks of the store a detection of this class and center may be
\* associated with at timestamp: same class, last position less than 100
\* away and less than 1.0 s old.
Eligible(tracks, class, center_x, center_y, timestamp) ==
    {i \in 1..Len(tracks) :
        /\ tracks[i].class = class
        /\ DistSq(center_x, center_y, Last(tracks[i].positions)[1],
                  Last(tracks[i].positions)[2]) < Sq(100)
        /\ timestamp - Last(tracks[i].positions)[3] < 1000}

\* Among the eligible tracks the nearest one, the first of the store on a tie.
Nearest(tracks, E, center_x, center_y) ==
    CHOOSE i \in E :
        \A j \in E :
            \/ DistSq(center_x, center_y, Last(tracks[i].positions)[1],
                      Last(tracks[i].positions)[2])
                  < DistSq(center_x, center_y, Last(tracks[j].positions)[1],
                           Last(tracks[j].positions)[2])
            \/ /\ DistSq(center_x, center_y, Last(tracks[i].positions)[1],
                         Last(tracks[i].positions)[2])
                     = DistSq(center_x, center_y, Last(tracks[j].positions)[1],
                              Last(tracks[j].positions)[2])
               /\ i <= j

\* The rule for a frame of one detection: the sample goes to the nearest
\* eligible track of the store, or starts a track that was not in the store.
SingleAssociated(old, new, detection, timestamp) ==
    LET c == Center(detection.bbox)
        E == Eligible(old, detection.class, c[1], c[2], timestamp)
    IN  IF E = {}
        THEN \E i \in 1..Len(new) :
                /\ new[i].id \notin TrackIds(old)
                /\ new[i].positions = <<<<c[1], c[2], timestamp>>>>
        ELSE /\ old[Nearest(old, E, c[1], c[2])].id \in TrackIds(new)
             /\ Last(TrackOf(new, old[Nearest(old, E, c[1], c[2])].id).positions)
                    = <<c[1], c[2], timestamp>>
             /\ \A i \in 1..Len(new) : new[i].id \in TrackIds(old)

\* C23, as stated: a sample only ever follows, in a track, a position that
\* is less than 100 away and less than 1.0 s older (a detection joins a
\* track only if the track is eligible), and a detection goes to the nearest
\* eligible track, the first in store order on a tie, or starts a new track
\* when there is none.
C23_AssociationRule ==
    /\ [](\A i \in 1..Len(tracked_objects) :
            \A k \in 1..(Len(tracked_objects[i].positions) - 1) :
                /\ DistSq(tracked_objects[i].positions[k][1],
                          tracked_objects[i].positions[k][2],
                          tracked_objects[i].positions[k + 1][1],
                          tracked_objects[i].positions[k + 1][2]) < Sq(100)
                /\ tracked_objects[i].positions[k + 1][3]
                      - tracked_objects[i].positions[k][3] < 1000)
    /\ [][Len(last_detections') = 1
            => SingleAssociated(tracked_objects, tracked_objects', last_detections'[1],
                                now')]_vars

\* The second conjunct of C23 alone: frames of a single detection.
C23_SingleDetectionFrames ==
    [][Len(last_detections') = 1
          => SingleAssociated(tracked_objects, tracked_objects', last_detections'[1],
                              now')]_vars

----------------------------------------------------------------------------
(* The host's calls *)

\* C24: the host calls initialize once, before the first frame, and then
\* detect_anomalies once per frame, one call after the other, with frame
\* numbers 0, 1, 2, ... and timestamp = frame_number / fps, so that the
\* timestamps of an engine are strictly increasing.
C24_HostCallsInOrder ==
    /\ [](ncalls > 0 => host_pc = "loop")
    /\ [][host_pc' # host_pc => (host_pc = "start" /\ host_pc' = "loop" /\ ncalls = 0)]_vars
    /\ [][ncalls' # ncalls =>
            /\ ncalls' = ncalls + 1
            /\ now' * fps = ncalls * 1000
            /\ last_detections' = SceneFrame(scene, ncalls)
            /\ (ncalls > 0 => now' > now)
            /\ fps' = fps]_vars

\* The third frame of a video at 4 fps, processed at timestamp 0.5 s.
C24_Witness ==
    /\ host_pc = "loop" /\ fps = 4
    /\ ncalls = 3 /\ now = 500

----------------------------------------------------------------------------
(* Attended objects *)

\* Detection i of the frame is not a person and a person of the frame has
\* its center less than 150 away.
Attended(detections, i) ==
    /\ detections[i].class # "person"
    /\ \E j \in 1..Len(detections) :
          /\ detections[j].class = "person"
          /\ DistSq(Center(detections[i].bbox)[1], Center(detections[i].bbox)[2],
                    Center(detections[j].bbox)[1], Center(detections[j].bbox)[2])
                < Sq(150)

\* C25: for a non-person detection with a person of the same frame less than
\* 150 away, the call creates no candidate for its key, leaves a candidate
\* of that key with its first_seen and confirmed values, and returns no
\* AbandonedObject event for the key; and no candidate is ever a person.
C25_AttendedObjectUntouched ==
    /\ [](\A k \in DOMAIN potential_abandoned_objects : k[1] # "person")
    /\ [][\A i \in 1..Len(last_detections') :
            Attended(last_detections', i) =>
                LET k == ObjectKey(last_detections'[i].class,
                                   Center(last_detections'[i].bbox)[1],
                                   Center(last_detections'[i].bbox)[2])
                IN  /\ k \in DOMAIN potential_abandoned_objects'
                          => /\ k \in DOMAIN potential_abandoned_objects
                             /\ potential_abandoned_objects'[k]
                                   = potential_abandoned_objects[k]
                    /\ \A e \in 1..Len(anomalies') :
                          ~(/\ anomalies'[e].type = "abandoned_object"
                            /\ anomalies'[e].object_id = k)]_vars

\* A backpack that has been a candidate for more than 5 s, not confirmed,
\* seen with a person 120 away: no event, the candidate as it was.
C25_Witness ==
    /\ last_detections = <<bA, pN>>
    /\ anomalies = <<>>
    /\ ObjectKey("backpack", 110, 120) \in DOMAIN potential_abandoned_objects
    /\ ~potential_abandoned_objects[ObjectKey("backpack", 110, 120)].confirmed
    /\ now - potential_abandoned_objects[ObjectKey("backpack", 110, 120)].first_seen
          > abandoned_object_threshold

----------------------------------------------------------------------------
(* Independence of the classifiers *)

Classifiers == {"detect_loitering", "detect_abandoned_objects", "detect_suspicious_movement"}

\* The orders in which the three classifiers can be evaluated.
Orders == {o \in [1..3 -> Classifiers] : \A i, j \in 1..3 : o[i] = o[j] => i = j}

\* The three classifiers evaluated in order o from state st: the state they
\* leave and the events of each.
Second(o, s1, detections, timestamp) ==
    ClassifierStep(o[2], [tracks |-> s1.tracks, pao |-> s1.pao], detections, timestamp)

Third(o, s2, detections, timestamp) ==
    ClassifierStep(o[3], [tracks |-> s2.tracks, pao |-> s2.pao], detections, timestamp)

Collected(o, s1, s2, s3) ==
    [tracks |-> s3.tracks, pao |-> s3.pao,
     events |-> [c \in Classifiers |->
                    IF c = o[1] THEN s1.events ELSE IF c = o[2] THEN s2.events
                    ELSE s3.events]]

AfterSecond(o, s1, s2, detections, timestamp) ==
    Collected(o, s1, s2, Third(o, s2, detections, timestamp))

AfterFirst(o, s1, detections, timestamp) ==
    AfterSecond(o, s1, Second(o, s1, detections, timestamp), detections, timestamp)

InOrder(o, st, detections, timestamp) ==
    AfterFirst(o, ClassifierStep(o[1], st, detections, timestamp), detections, timestamp)

\* The state the classifiers of a call start from: the tracks the call
\* leaves (association and sweeper come first) and the swept registry.
BeforeClassifiers(tracks, pao, timestamp) ==
    [tracks |-> tracks, pao |-> CleanupCandidates(pao, timestamp)]

\* What an order of evaluation yields against what the call returned and left.
Agrees(outcome, returned, left) ==
    /\ outcome.tracks = left.tracks
    /\ outcome.pao = left.pao
    /\ outcome.events["detect_loitering"]
          \o outcome.events["detect_abandoned_objects"]
          \o outcome.events["detect_suspicious_movement"] = returned

\* A classifier's step leaves the registries named in keeps as they are.
Keeps(st, after, keeps) ==
    /\ "tracks" \in keeps => after.tracks = st.tracks
    /\ "pao" \in keeps => after.pao = st.pao

\* The frame conditions of the three classifiers on st, and the outcome of
\* every order compared with what the call returned and left.
Independent(st, detections, timestamp, returned, left) ==
    /\ Keeps(st, LoiteringStep(st, detections, timestamp), {"tracks", "pao"})
    /\ Keeps(st, MovementStep(st, detections, timestamp), {"tracks", "pao"})
    /\ Keeps(st, AbandonedStep(st, detections, timestamp), {"tracks"})
    /\ \A o \in Orders : Agrees(InOrder(o, st, detections, timestamp), returned, left)

\* C26: detect_loitering and detect_suspicious_movement leave the Track
\* Store and the Candidate Registry as they are, detect_abandoned_objects
\* leaves the Track Store as it is, and in each of the six orders of
\* evaluation every classifier yields the events the call returned for it
\* and the registries end as the call left them (in a call that raises,
\* the classifiers after the raise are not evaluated at all).
C26_ClassifiersIndependent ==
    [][(ncalls' # ncalls /\ raised_in' = "") =>
          Independent(BeforeClassifiers(tracked_objects', potential_abandoned_objects, now'),
                      last_detections', now', anomalies',
                      [tracks |-> tracked_objects',
                       pao |-> potential_abandoned_objects'])]_vars

\* A call in which each of the three classifiers emitted an event while the
\* Candidate Registry holds a candidate.
C26_Witness ==
    /\ \A c \in {"loitering", "abandoned_object", "suspicious_movement"} :
          \E e \in 1..Len(anomalies) : anomalies[e].type = c
    /\ DOMAIN potential_abandoned_objects # {}
    /\ Len(tracked_objects) >= 2

----------------------------------------------------------------------------
(* Lifetime of a track *)

\* The time between the first and the latest sample of a track.
Lifetime(track_info) == track_info.last_seen - track_info.first_seen

\* C27: under non-decreasing timestamps every track has first_seen <=
\* last_seen and stationary_time <= last_seen - first_seen, first_seen
\* never changes once the track exists, and no loitering event is returned
\* for a track whose last_seen - first_seen is 10 s or less.
C27_StationaryWithinLifetime ==
    /\ [](\A i \in 1..Len(tracked_objects) :
            /\ tracked_objects[i].first_seen # None
            /\ tracked_objects[i].first_seen <= tracked_objects[i].last_seen
            /\ tracked_objects[i].stationary_time <= Lifetime(tracked_objects[i]))
    /\ [][\A i \in 1..Len(tracked_objects') :
            tracked_objects'[i].id \in TrackIds(tracked_objects) =>
                tracked_objects'[i].first_seen
                    = TrackOf(tracked_objects, tracked_objects'[i].id).first_seen]_vars
    /\ [](\A e \in 1..Len(anomalies) : anomalies[e].type = "loitering" =>
            /\ anomalies[e].object_id \in TrackIds(tracked_objects)
            /\ Lifetime(TrackOf(tracked_objects, anomalies[e].object_id)) > loitering_threshold)

\* A loitering event for a person who moved once: stationary_time is past
\* the threshold and shorter than the lifetime of the track.
C27_Witness ==
    \E e \in 1..Len(anomalies) :
        /\ anomalies[e].type = "loitering"
        /\ anomalies[e].object_id \in TrackIds(tracked_objects)
        /\ TrackOf(tracked_objects, anomalies[e].object_id).stationary_time
              < Lifetime(TrackOf(tracked_objects, anomalies[e].object_id))

----------------------------------------------------------------------------
(* Tracks past the association window *)

\* Line 124-125 can no longer hold for the track: its most recent position
\* is 1.0 s or more older than timestamp.
PastWindow(track_info, timestamp) ==
    timestamp - Last(track_info.positions)[3] >= AssocWindow

\* A detection of the object the track followed: the track's class, less
\* than 100 from its most recent position.
SameObject(track_info, detection) ==
    /\ detection.class = track_info.class
    /\ DistSq(Center(detection.bbox)[1], Center(detection.bbox)[2],
              Last(track_info.positions)[1], Last(track_info.positions)[2])
          < Sq(AssocDistance)

Sample(detection, timestamp) ==
    <<Center(detection.bbox)[1], Center(detection.bbox)[2], timestamp>>

\* A call at timestamp leaves every track past the window as it was, or
\* removes it.
Frozen(old, new, timestamp) ==
    \A i \in 1..Len(old) :
        (PastWindow(old[i], timestamp) /\ old[i].id \in TrackIds(new))
            => TrackOf(new, old[i].id) = old[i]

\* Every detection of the object of a track past the window started a track
\* of its own: a track the store did not hold, whose first sample it is.
StartsNewTrack(old, new, detections, timestamp) ==
    \A i \in 1..Len(old) : \A d \in 1..Len(detections) :
        (PastWindow(old[i], timestamp) /\ SameObject(old[i], detections[d])) =>
            \E n \in 1..Len(new) :
                /\ new[n].id \notin TrackIds(old)
                /\ new[n].positions[1] = Sample(detections[d], timestamp)

\* Every detection of the object of a track past the window went to a track
\* that was within the window, or to the track with the id made of its
\* class and the timestamp, which the store did not hold.
StartsOrJoins(old, new, detections, timestamp) ==
    \A i \in 1..Len(old) : \A d \in 1..Len(detections) :
        (PastWindow(old[i], timestamp) /\ SameObject(old[i], detections[d])) =>
            \E n \in 1..Len(new) :
                /\ SamplesAt(new[n].positions, timestamp) # <<>>
                /\ \E p \in 1..Len(new[n].positions) :
                      new[n].positions[p] = Sample(detections[d], timestamp)
                /\ IF new[n].id \in TrackIds(old)
                   THEN ~PastWindow(TrackOf(old, new[n].id), timestamp)
                   ELSE new[n].id = NewObjectId(detections[d].class, timestamp)

----------------------------------------------------------------------------
(* Lengths of the two histories *)

Min(a, b) == IF a < b THEN a ELSE b

\* C29: in every reachable state the movement history of each track holds
\* min(len(positions) - 1, 10) step distances, and a SuspiciousMovement
\* event is only returned for a track that holds at least 10 samples.
C29_HistoryLengths ==
    /\ \A i \in 1..Len(tracked_objects) :
          Len(tracked_objects[i].movement_history)
              = Min(Len(tracked_objects[i].positions) - 1, MovementMaxLen)
    /\ \A e \in 1..Len(anomalies) : anomalies[e].type = "suspicious_movement" =>
          /\ anomalies[e].object_id \in TrackIds(tracked_objects)
          /\ Len(TrackOf(tracked_objects, anomalies[e].object_id).positions) >= 10

\* A SuspiciousMovement event for a track that holds exactly 10 samples and
\* 9 step distances.
C29_Witness ==
    /\ \E e \in 1..Len(anomalies) :
          /\ anomalies[e].type = "suspicious_movement"
          /\ Len(TrackOf(tracked_objects, anomalies[e].object_id).positions) = 10
          /\ Len(TrackOf(tracked_objects, anomalies[e].object_id).movement_history) = 9

----------------------------------------------------------------------------
(* Association within one frame *)

\* The store as the loop of update_tracking has left it when it reaches
\* detection j of the frame.
StoreBefore(tracks, detections, j, timestamp) ==
    TrackLoop(tracks, SubSeq(detections, 1, j - 1), 1, timestamp, {}).tracks

DistSqTo(track_info, detection) ==
    DistSq(Center(detection.bbox)[1], Center(detection.bbox)[2],
           Last(track_info.positions)[1], Last(track_info.positions)[2])

\* Track i of store S got its most recent position in this frame and the
\* detection, of its class, is less than 100 from it.
NearJustRecorded(S, i, detection, timestamp) ==
    /\ S[i].class = detection.class
    /\ Last(S[i].positions)[3] = timestamp
    /\ DistSqTo(S[i], detection) < Sq(AssocDistance)

\* No eligible track of S is closer to the detection than track i.
NoCloser(S, i, detection, timestamp) ==
    \A k \in Eligible(S, detection.class, Center(detection.bbox)[1],
                      Center(detection.bbox)[2], timestamp) :
        DistSqTo(S[k], detection) >= DistSqTo(S[i], detection)

\* No eligible track of S is closer than track i, and none that comes
\* before it in the store is as close.
NoCloserNorEarlier(S, i, detection, timestamp) ==
    \A k \in Eligible(S, detection.class, Center(detection.bbox)[1],
                      Center(detection.bbox)[2], timestamp) :
        \/ DistSqTo(S[k], detection) > DistSqTo(S[i], detection)
        \/ DistSqTo(S[k], detection) = DistSqTo(S[i], detection) /\ k >= i

\* The detection went to track T of the frame's loop: the store after it
\* (S2) and the store the call leaves hold T with the detection's sample
\* after the one recorded before, both at timestamp.
SecondSample(T, S2, new, detection, timestamp) ==
    /\ T.id \in TrackIds(S2) /\ T.id \in TrackIds(new)
    /\ Last(TrackOf(S2, T.id).positions) = Sample(detection, timestamp)
    /\ Len(TrackOf(S2, T.id).positions) >= 2
    /\ TrackOf(S2, T.id).positions[Len(TrackOf(S2, T.id).positions) - 1] = Last(T.positions)
    /\ Len(SamplesAt(TrackOf(new, T.id).positions, timestamp)) >= 2

SeesEarlier(S, S2, new, detection, timestamp) ==
    \A i \in 1..Len(S) :
        (NearJustRecorded(S, i, detection, timestamp) /\ NoCloser(S, i, detection, timestamp))
            => SecondSample(S[i], S2, new, detection, timestamp)

SeesEarlierInOrder(S, S2, new, detection, timestamp) ==
    \A i \in 1..Len(S) :
        (NearJustRecorded(S, i, detection, timestamp)
            /\ NoCloserNorEarlier(S, i, detection, timestamp))
            => SecondSample(S[i], S2, new, detection, timestamp)

\* C30, as stated: within a frame a detection of the class of track T that
\* is less than 100 from the position an earlier detection of the frame has
\* just recorded for T, with no closer eligible track, is associated with T
\* as well, so that T holds two samples with the frame's timestamp.
C30_SameFrameSecondSample ==
    [][(ncalls' # ncalls /\ raised_in' = "") =>
          \A j \in 2..Len(last_detections') :
              \A S \in {StoreBefore(tracked_objects, last_detections', j, now')} :
                  \A S2 \in {StoreBefore(tracked_objects, last_detections', j + 1, now')} :
                      SeesEarlier(S, S2, tracked_objects', last_detections'[j], now')]_vars

\* C30, amended: the same, for a track T such that no eligible track is
\* closer and no eligible track as close comes before T in the store.
C30_SameFrameSecondSampleInOrder ==
    [][(ncalls' # ncalls /\ raised_in' = "") =>
          \A j \in 2..Len(last_detections') :
              \A S \in {StoreBefore(tracked_objects, last_detections', j, now')} :
                  \A S2 \in {StoreBefore(tracked_objects, last_detections', j + 1, now')} :
                      SeesEarlierInOrder(S, S2, tracked_objects', last_detections'[j], now')]_vars

\* A track of an earlier frame that received both detections of a frame: the
\* second is 60 from the position the first has just recorded.
C30_Witness ==
    /\ last_detections = <<pA, pM>>
    /\ now = 250
    /\ Len(tracked_objects) = 1
    /\ tracked_objects[1].positions = <<<<110, 120, 0>>, <<110, 120, 250>>, <<170, 120, 250>>>>

----------------------------------------------------------------------------
(* Frames with a malformed detection *)

HasMalformed(detections) == \E i \in 1..Len(detections) : IsMalformed(detections[i])

\* C31: a call whose frame holds a detection without class or without bbox
\* returns the empty list and leaves the Candidate Registry as it was: the
\* error is raised in update_tracking, before the sweeper and the
\* classifiers.
C31_MalformedFrameEmptyAndRegistryKept ==
    [][(ncalls' # ncalls /\ HasMalformed(last_detections')) =>
          /\ anomalies' = <<>>
          /\ raised_in' = "update_tracking"
          /\ potential_abandoned_objects' = potential_abandoned_objects]_vars

\* After a frame with a backpack and a malformed detection the registry
\* still holds the backpack's candidate, unconfirmed and more than 60 s old
\* (a well-formed frame would have swept it), and no candidate of the frame
\* was created.
C31_Witness ==
    /\ HasMalformed(last_detections)
    /\ \E i \in 1..Len(last_detections) : last_detections[i] = bG
    /\ raised_in = "update_tracking"
    /\ anomalies = <<>>
    /\ DOMAIN potential_abandoned_objects = {ObjectKey("backpack", 110, 120)}
    /\ ~potential_abandoned_objects[ObjectKey("backpack", 110, 120)].confirmed
    /\ now - potential_abandoned_objects[ObjectKey("backpack", 110, 120)].first_seen
          > CandidateStaleness
====
